---- MODULE Spec2Model ----
(***************************************************************************)
(* The notes API of teen_theory_backend (Routes/notes.py with             *)
(* models/notes_model.py): five request handlers over one notes           *)
(* collection and a read-only user collection.                            *)
(*                                                                         *)
(* Requests run concurrently (several server workers against one           *)
(* database).  A handler is cut into steps at its calls on the notes       *)
(* collection: each action below is one such call together with the        *)
(* handler's local code that precedes it.  The user collection is never    *)
(* written by these handlers, so its lookup is folded into the first step. *)
(***************************************************************************)
EXTENDS Naturals, Sequences, FiniteSets

\* ---------------------------------------------------------------- bounds
MaxRequests == 2   \* requests in flight at once
MaxNotes == 2      \* notes ever inserted
MaxTime == 1       \* distinct readings of the server clock
IdLen == 1         \* characters of an ObjectId string (24 in bson)
HexBase == 16      \* an ObjectId string is written in hexadecimal digits

Requests == 1..MaxRequests
Times == 1..MaxTime

\* Python's None, for what a lookup returns and for an absent response part.
None == [none |-> TRUE]
\* A dict with no keys.
EmptyDict == [k \in {} |-> ""]

Range(s) == {s[i] : i \in 1..Len(s)}

\* -------------------------------------------------------- user collection
\* The user records the token lookup reads; this code never writes them.
user_collection ==
  { [email |-> "alice@x.com", token |-> "ta"],
    [email |-> "bob@x.com", token |-> "tb"] }

\* user_collection.find_one({"token": token})
find_user(token) ==
  IF \E u \in user_collection : u.token = token
  THEN CHOOSE u \in user_collection : u.token = token
  ELSE None

\* ------------------------------------------------------------- ObjectId
\* str(ObjectId): IdLen hexadecimal digits, most significant first.
RECURSIVE Pow(_, _)
Pow(b, n) == IF n = 0 THEN 1 ELSE b * Pow(b, n - 1)
ObjectIdStr(oid) ==
  [i \in 1..IdLen |-> (oid \div Pow(HexBase, IdLen - i)) % HexBase]

\* ObjectId(note_id) raises unless note_id is IdLen hexadecimal digits.
ObjectIdValid(s) ==
  /\ Len(s) = IdLen
  /\ \A i \in 1..Len(s) : s[i] \in 0..(HexBase - 1)

RECURSIVE HexValue(_)
HexValue(s) ==
  IF s = <<>> THEN 0
  ELSE HexValue(SubSeq(s, 1, Len(s) - 1)) * HexBase + s[Len(s)]
\* ObjectId(note_id), for a valid note_id
ObjectId(s) == HexValue(s)

\* A note as the handlers return it: _id converted to its string.
Render(n) == [n EXCEPT !._id = ObjectIdStr(n._id)]

\* ----------------------------------------------------------- the inputs
Tokens == {"ta", "tb", "tx"}          \* "tx" is no stored user's token
\* A character that is no hexadecimal digit is written HexBase.
MalformedId == [i \in 1..IdLen |-> HexBase]
NoteIds == {ObjectIdStr(i) : i \in 1..MaxNotes} \cup {MalformedId}

\* dict.update / $set: the keys of g replace or extend those of f.
Merge(f, g) ==
  [k \in (DOMAIN f) \cup (DOMAIN g) |-> IF k \in DOMAIN g THEN g[k] ELSE f[k]]

\* JSON bodies are dicts from field names to values.  A date is a reading of
\* a clock with one-second resolution, which stands for its one text
\* "YYYY-MM-DD HH:MM:SS"; reading 0 is a date only a client supplies.
Field(k, vals) == {EmptyDict} \cup {[x \in {k} |-> v] : v \in vals}
ClientExtras == [created_by_user_email |-> "mallory@x.com", created_date |-> 0]

CreateBodies ==
  { Merge(Merge(Merge(a, b), c), d) :
      a \in Field("project_name", {"", "p"}),
      b \in Field("notes", {"n"}),
      c \in Field("created_by_user_email", {"mallory@x.com"}),
      d \in Field("created_date", {0}) }

UpdateBodies ==
  { Merge(Merge(a, b), c) :
      a \in Field("project_name", {"", "p"}),
      b \in Field("notes", {"m"}),
      c \in {EmptyDict, ClientExtras} }

\* ------------------------------------------------------ models/notes_model
NoteModelRequired ==
  {"project_name", "created_by_user_email", "created_date", "notes"}
\* NoteModel: the four str fields have no default, so each must be present.
NoteModelValid(body) == NoteModelRequired \subseteq DOMAIN body
NoteModel(body) == [k \in NoteModelRequired |-> body[k]]

\* NoteUpdateModel: two Optional fields defaulting to None (here: no key);
\* any other key of the body is dropped.
NoteUpdateModel(body) ==
  [k \in (DOMAIN body) \cap {"project_name", "notes"} |-> body[k]]

\* --------------------------------------------------------------- state
VARIABLES
  notes,    \* the notes collection: documents in insertion order
  nextId,   \* the ObjectId the next insert_one generates
  req       \* per request slot: where its handler stands, and its locals

vars == <<notes, nextId, req>>

HTTPException(status, detail) == [status |-> status, detail |-> detail]

Idle ==
  [pc |-> "idle", op |-> "", token |-> "", note_id |-> <<>>,
   body |-> EmptyDict, object_id |-> 0,
   update_fields |-> EmptyDict, resp |-> [status |-> 0]]

Init ==
  /\ notes = <<>>
  /\ nextId = 1
  /\ req = [r \in Requests |-> Idle]

\* ------------------------------------------------- the notes collection
Has(coll, oid) == \E i \in 1..Len(coll) : coll[i]._id = oid

\* notes_collection.find_one({"_id": object_id})
find_one(coll, oid) ==
  IF Has(coll, oid)
  THEN coll[CHOOSE i \in 1..Len(coll) : coll[i]._id = oid]
  ELSE None

\* notes_collection.find({"created_by_user_email": email})
IsCreatedBy_unfiltered(n, email) == TRUE
IsCreatedBy(n, email) == n.created_by_user_email = email
find_by_email(coll, email) == SelectSeq(coll, LAMBDA n : IsCreatedBy(n, email))

\* The _id insert_one gives a document: never one it has given before.
inserted_id_reused(coll, next) ==
  CHOOSE i \in 1..next : ~Has(coll, i) /\ \A j \in 1..(i - 1) : Has(coll, j)
inserted_id(coll, next) == next
insert_one(coll, doc, next) ==
  Append(coll, Merge(doc, [_id |-> inserted_id(coll, next)]))

\* notes_collection.update_one({"_id": object_id}, {"$set": update_fields})
update_one(coll, oid, fields) ==
  [i \in 1..Len(coll) |->
     IF coll[i]._id = oid THEN Merge(coll[i], fields) ELSE coll[i]]

\* notes_collection.delete_one({"_id": object_id})
delete_one(coll, oid) == SelectSeq(coll, LAMBDA n : n._id # oid)

\* ------------------------------------------------------ handler helpers
\* note.get("created_by_user_email") != created_by_email, negated
is_creator_unchecked(note, created_by_email) == TRUE
is_creator(note, created_by_email) ==
  note.created_by_user_email = created_by_email

\* update_note: only the fields of update_data that are not None.
UpdateFields_unguarded(update_data) ==
  [project_name |-> IF "project_name" \in DOMAIN update_data
                      THEN update_data.project_name ELSE "",
   notes |-> IF "notes" \in DOMAIN update_data THEN update_data.notes ELSE ""]
UpdateFields_stamped(update_data) ==
  Merge(update_data, [created_date |-> 0])
UpdateFields(update_data) ==
  Merge(IF "project_name" \in DOMAIN update_data
          THEN [project_name |-> update_data.project_name] ELSE EmptyDict,
        IF "notes" \in DOMAIN update_data
          THEN [notes |-> update_data.notes] ELSE EmptyDict)

\* create_note: the document built from the parsed body, the user and the clock
NoteDoc(note_data, created_by_email, now) ==
  [project_name |-> note_data.project_name,
   created_by_user_email |-> created_by_email,
   created_date |-> now,
   notes |-> note_data.notes]

\* The handler returns or raises: the slot keeps the response (and the
\* ObjectId the request was about, 0 when it parsed none).
FinishAt(r, object_id, response) ==
  req' = [req EXCEPT ![r] =
            [Idle EXCEPT !.pc = "done", !.op = req[r].op,
                         !.object_id = object_id, !.resp = response]]
Finish(r, response) == FinishAt(r, req[r].object_id, response)

Unauthorized == HTTPException(401, "Invalid or expired token")
InvalidId == HTTPException(400, "Invalid note ID format")
NotFound == HTTPException(404, "Note not found")

\* ------------------------------------------------------------- actions
\* A request arrives: the framework has the route, the token and the body.
\* Arrival touches only the request's own slot, so it commutes with every
\* step of the other requests: it is taken right before the handler's first
\* step, one arrival at a time.  No insert is admitted past MaxNotes.

Receive(r) ==
  /\ req[r].pc = "idle"
  /\ \E op \in {"create", "all", "my-notes", "update", "delete"},
        token \in Tokens :
       \E note_id \in (IF op \in {"update", "delete"} THEN NoteIds ELSE {<<>>}),
          body \in (CASE op = "create" -> CreateBodies
                      [] op = "update" -> UpdateBodies
                      [] OTHER -> {EmptyDict}) :
         /\ op = "create" => nextId <= MaxNotes
         /\ \A s \in Requests : req[s].pc # "received"
         /\ req' = [req EXCEPT ![r] =
                      [Idle EXCEPT !.pc = "received", !.op = op, !.token = token,
                                   !.note_id = note_id, !.body = body]]
  /\ UNCHANGED <<notes, nextId>>

\* create_note; a body NoteModel rejects is answered 422 before the handler.
CreateNote(r) ==
  /\ req[r].pc = "received" /\ req[r].op = "create"
  /\ LET q == req[r]
         user == find_user(q.token)
     IN IF ~NoteModelValid(q.body)
        THEN /\ Finish(r, HTTPException(422, "Field required"))
             /\ UNCHANGED <<notes, nextId>>
        ELSE IF user = None
        THEN /\ Finish(r, Unauthorized)
             /\ UNCHANGED <<notes, nextId>>
        ELSE \E now \in Times :
               LET note_doc == NoteDoc(NoteModel(q.body), user.email, now)
               IN /\ notes' = insert_one(notes, note_doc, nextId)
                  /\ nextId' = nextId + 1
                  /\ Finish(r, [status |-> 201,
                                message |-> "Note created successfully",
                                data |-> Render(notes'[Len(notes')])])

\* get_all_notes
GetAllNotes(r) ==
  /\ req[r].pc = "received" /\ req[r].op = "all"
  /\ LET user == find_user(req[r].token)
     IN IF user = None
        THEN Finish(r, Unauthorized)
        ELSE LET all_notes == [i \in 1..Len(notes) |-> Render(notes[i])]
             IN Finish(r, [status |-> 200,
                           message |-> "All notes retrieved successfully",
                           count |-> Len(all_notes), data |-> all_notes])
  /\ UNCHANGED <<notes, nextId>>

\* get_my_notes
GetMyNotes(r) ==
  /\ req[r].pc = "received" /\ req[r].op = "my-notes"
  /\ LET user == find_user(req[r].token)
     IN IF user = None
        THEN Finish(r, Unauthorized)
        ELSE LET found == find_by_email(notes, user.email)
                 user_notes == [i \in 1..Len(found) |-> Render(found[i])]
             IN Finish(r, [status |-> 200,
                           message |-> "Your notes retrieved successfully",
                           count |-> Len(user_notes), data |-> user_notes])
  /\ UNCHANGED <<notes, nextId>>

\* update_note up to its first find_one: token, note_id, lookup, ownership,
\* the fields to set.
UpdateFind(r) ==
  /\ req[r].pc = "received" /\ req[r].op = "update"
  /\ LET q == req[r]
         user == find_user(q.token)
         object_id == ObjectId(q.note_id)
         note == find_one(notes, object_id)
         update_fields == UpdateFields(NoteUpdateModel(q.body))
     IN IF user = None THEN Finish(r, Unauthorized)
        ELSE IF ~ObjectIdValid(q.note_id) THEN Finish(r, InvalidId)
        ELSE IF note = None THEN FinishAt(r, object_id, NotFound)
        ELSE IF ~is_creator(note, user.email)
        THEN FinishAt(r, object_id,
                      HTTPException(403, "You can only update your own notes"))
        ELSE IF update_fields = EmptyDict
        THEN FinishAt(r, object_id, HTTPException(400, "No fields to update"))
        ELSE req' = [req EXCEPT ![r] =
                       [Idle EXCEPT !.pc = "update_one", !.op = q.op,
                                    !.object_id = object_id,
                                    !.update_fields = update_fields]]
  /\ UNCHANGED <<notes, nextId>>

\* update_note: update_one
UpdateWrite(r) ==
  /\ req[r].pc = "update_one"
  /\ notes' = update_one(notes, req[r].object_id, req[r].update_fields)
  /\ req' = [req EXCEPT ![r].pc = "reread"]
  /\ UNCHANGED nextId

\* update_note: the second find_one; subscripting None raises TypeError,
\* which no handler catches: the framework answers 500.
UpdateReread(r) ==
  /\ req[r].pc = "reread"
  /\ LET updated_note == find_one(notes, req[r].object_id)
     IN IF updated_note = None
        THEN Finish(r, HTTPException(500, "Internal Server Error"))
        ELSE Finish(r, [status |-> 200,
                        message |-> "Note updated successfully",
                        data |-> Render(updated_note)])
  /\ UNCHANGED <<notes, nextId>>

\* delete_note up to its find_one: token, note_id, lookup, ownership.
DeleteFind(r) ==
  /\ req[r].pc = "received" /\ req[r].op = "delete"
  /\ LET q == req[r]
         user == find_user(q.token)
         object_id == ObjectId(q.note_id)
         note == find_one(notes, object_id)
     IN IF user = None THEN Finish(r, Unauthorized)
        ELSE IF ~ObjectIdValid(q.note_id) THEN Finish(r, InvalidId)
        ELSE IF note = None THEN FinishAt(r, object_id, NotFound)
        ELSE IF ~is_creator(note, user.email)
        THEN FinishAt(r, object_id,
                      HTTPException(403, "You can only delete your own notes"))
        ELSE req' = [req EXCEPT ![r] =
                       [Idle EXCEPT !.pc = "delete_one", !.op = q.op,
                                    !.note_id = q.note_id,
                                    !.object_id = object_id]]
  /\ UNCHANGED <<notes, nextId>>

\* delete_note: delete_one, then the success envelope echoing note_id
DeleteWrite(r) ==
  /\ req[r].pc = "delete_one"
  /\ notes' = delete_one(notes, req[r].object_id)
  /\ Finish(r, [status |-> 200, message |-> "Note deleted successfully",
                data |-> [_id |-> req[r].note_id, deleted |-> TRUE]])
  /\ UNCHANGED nextId

\* The response is sent; the slot takes the next request.
Respond(r) ==
  /\ req[r].pc = "done"
  /\ req' = [req EXCEPT ![r] = Idle]
  /\ UNCHANGED <<notes, nextId>>

Next ==
  \E r \in Requests :
    \/ Receive(r)
    \/ CreateNote(r)
    \/ GetAllNotes(r)
    \/ GetMyNotes(r)
    \/ UpdateFind(r)
    \/ UpdateWrite(r)
    \/ UpdateReread(r)
    \/ DeleteFind(r)
    \/ DeleteWrite(r)
    \/ Respond(r)

Spec == Init /\ [][Next]_vars

\* ------------------------------------------------------------ the claims
\* Slot r takes a step (every action rewrites exactly one slot).
Steps(r) == req'[r] # req[r]
Stored(oid) == Has(notes, oid)
KnownToken(token) == \E u \in user_collection : u.token = token
EmailOf(token) == (CHOOSE u \in user_collection : u.token = token).email
Owner(oid) == notes[CHOOSE i \in 1..Len(notes) : notes[i]._id = oid].created_by_user_email
ById(coll, oid) == coll[CHOOSE i \in 1..Len(coll) : coll[i]._id = oid]
\* Request r, about to run, addresses a stored note with a stored user's token.
Addresses(r) ==
  /\ req[r].pc = "received"
  /\ req[r].op \in {"update", "delete"}
  /\ KnownToken(req[r].token)
  /\ ObjectIdValid(req[r].note_id)
  /\ Stored(ObjectId(req[r].note_id))

\* C1: an Update or Delete of a stored note by an authenticated user who is
\* not its creator ends with 403 whatever the payload, and its step leaves the
\* whole collection as it was; in every interleaving.
C1_NonOwnerForbidden ==
  [][\A r \in Requests :
       ( /\ Steps(r)
         /\ Addresses(r)
         /\ Owner(ObjectId(req[r].note_id)) # EmailOf(req[r].token) )
       => /\ req'[r].pc = "done"
          /\ req'[r].resp.status = 403
          /\ notes' = notes]_vars

C1_Witness ==
  \E r \in Requests :
    /\ req[r].pc = "done" /\ req[r].op \in {"update", "delete"}
    /\ req[r].resp.status = 403
    /\ Stored(req[r].object_id)

\* C2: a note that is in the collection before and after a step has the same
\* created_by_user_email and created_date after it as before.
C2_CreatorAndDateImmutable ==
  [][\A i \in 1..Len(notes) : \A j \in 1..Len(notes') :
       notes[i]._id = notes'[j]._id
       => /\ notes'[j].created_by_user_email = notes[i].created_by_user_email
          /\ notes'[j].created_date = notes[i].created_date]_vars

\* An update has been applied and its note re-read.
C2_Witness ==
  \E r \in Requests :
    /\ req[r].pc = "done" /\ req[r].op = "update" /\ req[r].resp.status = 200
    /\ req[r].resp.data.notes = "m"

\* C3 (as claimed): a request with a token no user has, whatever its note id
\* and whatever its body (for Create: any body with project_name and notes),
\* ends with 401 and leaves the collection as it was.
C3_UnknownTokenUnauthorized ==
  [][\A r \in Requests :
       ( /\ Steps(r)
         /\ req[r].pc = "received"
         /\ ~KnownToken(req[r].token)
         /\ req[r].op = "create" => {"project_name", "notes"} \subseteq DOMAIN req[r].body )
       => /\ req'[r].pc = "done"
          /\ req'[r].resp.status = 401
          /\ notes' = notes]_vars

\* The fields of the two-field payload a body supplies.
Supplied(body) == (DOMAIN body) \cap {"project_name", "notes"}

\* C4: the fields an Update sets are exactly the ones its payload supplies,
\* with the payload's values, and its update_one changes no other field of
\* the note: notes alone leaves project_name, project_name alone leaves
\* notes.  An Update with neither field never writes, and when it comes from
\* the creator of a stored note it ends with 400 "No fields to update".
C4_PartialUpdate ==
  [][\A r \in Requests : Steps(r) =>
       /\ (req[r].pc = "received" /\ req[r].op = "update")
          => /\ req'[r].pc = "update_one"
                => /\ DOMAIN req'[r].update_fields = Supplied(req[r].body)
                   /\ \A k \in Supplied(req[r].body) :
                        req'[r].update_fields[k] = req[r].body[k]
             /\ Supplied(req[r].body) = {}
                => /\ req'[r].pc = "done"
                   /\ req'[r].resp.status \in {401, 400, 404, 403}
                   /\ notes' = notes
                   /\ ( /\ Addresses(r)
                        /\ Owner(ObjectId(req[r].note_id)) = EmailOf(req[r].token) )
                      => /\ req'[r].resp.status = 400
                         /\ req'[r].resp.detail = "No fields to update"
       /\ req[r].pc = "update_one"
          => /\ Len(notes') = Len(notes)
             /\ \A i \in 1..Len(notes) :
                  /\ notes[i]._id # req[r].object_id => notes'[i] = notes[i]
                  /\ DOMAIN notes'[i] = DOMAIN notes[i]
                  /\ \A k \in DOMAIN notes[i] :
                       notes'[i][k] = IF /\ notes[i]._id = req[r].object_id
                                         /\ k \in DOMAIN req[r].update_fields
                                      THEN req[r].update_fields[k]
                                      ELSE notes[i][k]]_vars

\* One update has written notes alone, project_name kept, while another
\* with an empty payload was refused.
C4_Witness ==
  \E r, s \in Requests :
    /\ req[r].pc = "reread"
    /\ DOMAIN req[r].update_fields = {"notes"}
    /\ Stored(req[r].object_id)
    /\ ById(notes, req[r].object_id).notes = "m"
    /\ ById(notes, req[r].object_id).project_name = "p"
    /\ req[s].pc = "done" /\ req[s].op = "update"
    /\ req[s].resp.status = 400
    /\ req[s].resp.detail = "No fields to update"

Rendered(coll) == {Render(coll[i]) : i \in 1..Len(coll)}
MineOf(coll, email) ==
  {Render(coll[i]) : i \in {j \in 1..Len(coll) : coll[j].created_by_user_email = email}}
ListsAll(r) ==
  /\ Steps(r) /\ req[r].pc = "received" /\ req[r].op = "all"
  /\ KnownToken(req[r].token)
ListsMine(r) ==
  /\ Steps(r) /\ req[r].pc = "received" /\ req[r].op = "my-notes"
  /\ KnownToken(req[r].token)

\* C5 (as amended): List All by an authenticated user returns every stored
\* note; List Mine returns exactly the stored notes whose
\* created_by_user_email is the caller's email, a subset of what List All
\* returns in that state (all of it when every stored note is the caller's);
\* count is the number of notes returned.
C5_ListScope ==
  [][\A r \in Requests :
       /\ ListsAll(r)
          => /\ req'[r].resp.status = 200
             /\ Range(req'[r].resp.data) = Rendered(notes)
             /\ req'[r].resp.count = Len(req'[r].resp.data)
             /\ req'[r].resp.count = Cardinality(Rendered(notes))
       /\ ListsMine(r)
          => /\ req'[r].resp.status = 200
             /\ Range(req'[r].resp.data) = MineOf(notes, EmailOf(req[r].token))
             /\ Range(req'[r].resp.data) \subseteq Rendered(notes)
             /\ req'[r].resp.count = Len(req'[r].resp.data)
             /\ req'[r].resp.count
                  = Cardinality(MineOf(notes, EmailOf(req[r].token)))]_vars

\* A List Mine answered with one note while two users' notes are stored.
C5_Witness ==
  \E r \in Requests :
    /\ req[r].pc = "done" /\ req[r].op = "my-notes" /\ req[r].resp.status = 200
    /\ req[r].resp.count = 1
    /\ Len(notes) = 2
    /\ notes[1].created_by_user_email # notes[2].created_by_user_email

\* C5 (as claimed): what List Mine returns is a strict subset of what List
\* All returns in that state.
C5_StrictSubset ==
  [][\A r \in Requests :
       ListsMine(r)
       => /\ Range(req'[r].resp.data) \subseteq Rendered(notes)
          /\ Range(req'[r].resp.data) # Rendered(notes)]_vars

\* C6 (as claimed): Create with a stored user's token and a body carrying
\* project_name P and notes N succeeds, and List Mine by that user then
\* finds a note with the user's email, P, N and a non-empty id.
C6_CreateRoundTrip ==
  [][\A r \in Requests :
       ( /\ Steps(r)
         /\ req[r].pc = "received" /\ req[r].op = "create"
         /\ KnownToken(req[r].token)
         /\ {"project_name", "notes"} \subseteq DOMAIN req[r].body )
       => /\ req'[r].resp.status = 201
          /\ \E n \in MineOf(notes', EmailOf(req[r].token)) :
               /\ n.project_name = req[r].body.project_name
               /\ n.notes = req[r].body.notes
               /\ n.created_by_user_email = EmailOf(req[r].token)
               /\ n._id # <<>>]_vars

\* An ObjectId that insert_one has given out and that is stored no more:
\* documents leave the collection through delete_one alone.
Gone(oid) == oid \in 1..(nextId - 1) /\ ~Stored(oid)

\* C7: a successful Delete leaves no note with its id; an id that is gone
\* stays gone whatever is created afterward; an Update or Delete that looks
\* it up with a stored user's token ends with 404; no List All or List Mine
\* returns a note with it.
C7_DeletedForGood ==
  [][/\ \A oid \in 1..(nextId - 1) : Gone(oid) => Gone(oid)'
     /\ \A r \in Requests : Steps(r) =>
          /\ req[r].pc = "delete_one"
             => /\ req'[r].resp.status = 200
                /\ Gone(req[r].object_id)'
          /\ ( /\ req[r].pc = "received"
               /\ req[r].op \in {"update", "delete"}
               /\ KnownToken(req[r].token)
               /\ ObjectIdValid(req[r].note_id)
               /\ Gone(ObjectId(req[r].note_id)) )
             => /\ req'[r].pc = "done"
                /\ req'[r].resp.status = 404
          /\ (ListsAll(r) \/ ListsMine(r))
             => \A k \in 1..Len(req'[r].resp.data) :
                  ~Gone(ObjectId(req'[r].resp.data[k]._id))]_vars

\* After a Delete of a note, a new note was created and a request for the
\* deleted id was answered 404.
C7_Witness ==
  \E r \in Requests :
    /\ req[r].pc = "done" /\ req[r].op \in {"update", "delete"}
    /\ req[r].resp.status = 404
    /\ Gone(req[r].object_id)
    /\ \E i \in 1..Len(notes) : notes[i]._id > req[r].object_id

\* C8 (as claimed): every stored note has a non-empty project_name.
C8_ProjectNameNonEmpty ==
  \A i \in 1..Len(notes) : notes[i].project_name # ""

\* C9 (as claimed): every Update ends with the success envelope or with one
\* of 401, 400, 404, 403.
C9_UpdateEndsEnumerated ==
  \A r \in Requests :
    (req[r].pc = "done" /\ req[r].op = "update")
    => req[r].resp.status \in {200, 401, 400, 404, 403}

\* C10 (as claimed): a Delete that returns the success envelope is the one
\* whose delete_one removed the note, so at most one does for each note.
C10_OneDeleteSucceeds ==
  [][\A r \in Requests :
       ( /\ Steps(r)
         /\ req[r].pc = "delete_one"
         /\ req'[r].resp.status = 200 )
       => /\ Stored(req[r].object_id)
          /\ ~Has(notes', req[r].object_id)]_vars
====
